---- MODULE Spec2Model ----
(***************************************************************************)
(* Verification model of the et-demands crop ET daily loop:                *)
(*   cropET/bin/compute_crop_gdd.py  (rolling ETref mean, CGDD reset, GDD) *)
(*   cropET/bin/crop_cycle.py        (crop loop, day loop, output files)   *)
(*   cropET/bin/et_cell.py           (static cell / crop parameter load)   *)
(*                                                                         *)
(* Python floats are modelled as exact rationals <<num, den>> (den > 0,    *)
(* lowest terms); rounding of IEEE doubles is not modelled.                *)
(***************************************************************************)
EXTENDS Integers, Sequences, FiniteSets, TLC

VARIABLES
    pc,        \* position of the running routine
    crop,      \* the crop parameter record of the current run
    foo,       \* InitializeCropCycle instance: persistent per-crop state
    foo_day,   \* DayData instance: per-day inputs + 30 slot ETref buffer
    hist,      \* history of the last call (pre-state, inputs), for properties
    run,       \* crop_day_loop / calendar bookkeeping
    cyc,       \* crop_cycle bookkeeping (crop loop, output files)
    reg        \* ETCellData loading state

vars == <<pc, crop, foo, foo_day, hist, run, cyc, reg>>

-----------------------------------------------------------------------------
(* Exact rational arithmetic standing for Python float arithmetic.          *)

Abs(x) == IF x < 0 THEN -x ELSE x

RECURSIVE GCD(_, _)
GCD(a, b) == IF b = 0 THEN a ELSE GCD(b, a % b)

Rat(n, d) ==
    LET s == IF d < 0 THEN -1 ELSE 1
        g == GCD(Abs(n), Abs(d))
    IN  IF n = 0 THEN <<0, 1>> ELSE <<(s * n) \div g, (s * d) \div g>>

RInt(i) == <<i, 1>>
RAdd(a, b) == Rat(a[1] * b[2] + b[1] * a[2], a[2] * b[2])
RSub(a, b) == Rat(a[1] * b[2] - b[1] * a[2], a[2] * b[2])
RMul(a, b) == Rat(a[1] * b[1], a[2] * b[2])
RDiv(a, b) == Rat(a[1] * b[2], a[2] * b[1])
RLt(a, b) == a[1] * b[2] < b[1] * a[2]
RMax(a, b) == IF RLt(a, b) THEN b ELSE a
RZero == RInt(0)

-----------------------------------------------------------------------------
(* Curve names are character sequences, so that  'WINTER' in curve_name    *)
(* is a real substring search.                                             *)

WINTER == <<"W", "I", "N", "T", "E", "R">>
WINTER_WHEAT == WINTER \o <<" ", "W", "H", "E", "A", "T">>
WINTER_CANOLA == WINTER \o <<" ", "C", "A", "N", "O", "L", "A">>
FIELD_CORN == <<"F", "I", "E", "L", "D", " ", "C", "O", "R", "N">>
ALFALFA == <<"A", "L", "F", "A", "L", "F", "A">>
BARE_SOIL == <<"B", "A", "R", "E">>

Contains(sub, s) ==
    \E k \in 1..(Len(s) - Len(sub) + 1) : SubSeq(s, k, k + Len(sub) - 1) = sub

MkCrop(cls, name, curve, tbase, trig) ==
    [class_number |-> cls, curve_name |-> name, curve_number |-> curve,
     tbase |-> tbase, crop_gdd_trigger_doy |-> trig]

-----------------------------------------------------------------------------
(* Program constants of compute_crop_gdd.                                  *)

NSlots == 30
TriggerOffset == 199
TMaxLimit == 30

(* DayData(): only the zeroed buffer is set by the constructor; the day    *)
(* fields are assigned by crop_day_loop before their first use.            *)
DayData ==
    [sdays |-> 0, doy |-> 0, etref |-> 0, tmax |-> 0, tmin |-> 0,
     tmean |-> RZero, snow_depth |-> 0,
     etref_array |-> [k \in 1..NSlots |-> 0]]

(* InitializeCropCycle(): the constructor is not part of the sources at    *)
(* hand; the fresh state is the zeroed one the specification describes.    *)
InitializeCropCycle ==
    [etref_30 |-> RZero, cgdd |-> RZero, gdd |-> RZero, penalty |-> RZero,
     cgdd_penalty |-> RZero, lDoy |-> 0, doy_start_cycle |-> 0,
     real_start |-> FALSE, in_season |-> FALSE,
     crop_setup_flag |-> TRUE, dormant_setup_flag |-> FALSE]

-----------------------------------------------------------------------------
(* compute_crop_gdd, stage A: 30 day rolling mean of reference ET.          *)

(* mutant: the new value overwrites the last slot, nothing is shifted *)
ShiftArray_NoShift(arr, e) ==
    [k \in 1..NSlots |-> IF k < NSlots THEN arr[k] ELSE e]

ShiftArray(arr, e) ==
    [k \in 1..NSlots |-> IF k < NSlots THEN arr[k + 1] ELSE e]

StageA_array(fd) ==
    IF fd.sdays > NSlots
    THEN ShiftArray(fd.etref_array, fd.etref)
    ELSE [fd.etref_array EXCEPT ![fd.sdays] = fd.etref]

(* mutant: the first 30 days weighted with sdays instead of sdays - 1 *)
StageA_etref_30_OffByOne(f, fd) ==
    IF fd.sdays > NSlots
    THEN LET etref_lost == fd.etref_array[1]
         IN  RAdd(f.etref_30, RDiv(RInt(fd.etref - etref_lost), RInt(NSlots)))
    ELSE RDiv(RAdd(RMul(f.etref_30, RInt(fd.sdays)), RInt(fd.etref)),
              RInt(fd.sdays + 1))

StageA_etref_30(f, fd) ==
    IF fd.sdays > NSlots
    THEN LET etref_lost == fd.etref_array[1]
         IN  RAdd(f.etref_30, RDiv(RInt(fd.etref - etref_lost), RInt(NSlots)))
    ELSE RDiv(RAdd(RMul(f.etref_30, RInt(fd.sdays - 1)), RInt(fd.etref)),
              RInt(fd.sdays))

(* compute_crop_gdd, stage B: reset of CGDD at the trigger day of year.     *)

IsWinterCategory(c) ==
    c.class_number \in {13, 14} \/ Contains(WINTER, c.curve_name)

(* mutant: the winter test needs a day after the trigger day *)
ResetTriggers_WinterStrict(c, f, fd) ==
    IF IsWinterCategory(c)
    THEN f.lDoy < c.crop_gdd_trigger_doy /\ fd.doy > c.crop_gdd_trigger_doy
    ELSE /\ f.lDoy > c.crop_gdd_trigger_doy + TriggerOffset
         /\ fd.doy < c.crop_gdd_trigger_doy + TriggerOffset

(* mutant: the standard test accepts the day trigger + 199 itself *)
ResetTriggers_StandardInclusive(c, f, fd) ==
    IF IsWinterCategory(c)
    THEN f.lDoy < c.crop_gdd_trigger_doy /\ fd.doy >= c.crop_gdd_trigger_doy
    ELSE /\ f.lDoy > c.crop_gdd_trigger_doy + TriggerOffset
         /\ fd.doy <= c.crop_gdd_trigger_doy + TriggerOffset

(* mutant: every crop is reset on its trigger day, as a winter crop is *)
ResetTriggers_OnTriggerDay(c, f, fd) ==
    f.lDoy < c.crop_gdd_trigger_doy /\ fd.doy >= c.crop_gdd_trigger_doy

ResetTriggers(c, f, fd) ==
    IF IsWinterCategory(c)
    THEN f.lDoy < c.crop_gdd_trigger_doy /\ fd.doy >= c.crop_gdd_trigger_doy
    ELSE /\ f.lDoy > c.crop_gdd_trigger_doy + TriggerOffset
         /\ fd.doy < c.crop_gdd_trigger_doy + TriggerOffset

(* mutant: the reset leaves the season flag as the adapter set it *)
StageB_KeepsSeason(c, f, fd) ==
    LET g == IF ResetTriggers(c, f, fd)
             THEN [f EXCEPT !.cgdd = RZero, !.doy_start_cycle = 0,
                            !.real_start = FALSE]
             ELSE f
    IN  [g EXCEPT !.lDoy = fd.doy]

(* mutant: the reset also drops the pending penalties *)
StageB_ClearsPenalty(c, f, fd) ==
    LET g == IF ResetTriggers(c, f, fd)
             THEN [f EXCEPT !.cgdd = RZero, !.doy_start_cycle = 0,
                            !.real_start = FALSE, !.in_season = FALSE,
                            !.penalty = RZero, !.cgdd_penalty = RZero]
             ELSE f
    IN  [g EXCEPT !.lDoy = fd.doy]

StageB(c, f, fd) ==
    LET g == IF ResetTriggers(c, f, fd)
             THEN [f EXCEPT !.cgdd = RZero, !.doy_start_cycle = 0,
                            !.real_start = FALSE, !.in_season = FALSE]
             ELSE f
    IN  [g EXCEPT !.lDoy = fd.doy]

(* compute_crop_gdd, stage C: daily GDD / CGDD by crop policy.              *)

IsWinterGrain(c) ==
    c.class_number \in {13, 14} \/ c.curve_name = WINTER_WHEAT

(* mutant: burn-back of 30% (the value the comments still describe) *)
WinterGrainGdd_Burn30(c, f, fd) ==
    LET gdd0 == IF fd.tmin < -4 THEN RZero
                ELSE IF RLt(RInt(c.tbase), fd.tmean)
                     THEN RSub(fd.tmean, RInt(c.tbase))
                     ELSE RZero
        gdd1 == RMax(RSub(gdd0, f.penalty), RZero)
        cgdd1 == RMax(RZero, RSub(RAdd(f.cgdd, gdd1), f.cgdd_penalty))
    IN  [f EXCEPT !.gdd = gdd1,
                  !.cgdd = cgdd1,
                  !.penalty = IF fd.tmin < -10 THEN RInt(5) ELSE RZero,
                  !.cgdd_penalty = IF fd.tmin < -25 /\ fd.snow_depth <= 0
                                   THEN RMul(cgdd1, Rat(3, 10))
                                   ELSE RZero]

(* mutant: the cold penalty scheduled for the next day is 10 *)
WinterGrainGdd_Penalty10(c, f, fd) ==
    LET gdd0 == IF fd.tmin < -4 THEN RZero
                ELSE IF RLt(RInt(c.tbase), fd.tmean)
                     THEN RSub(fd.tmean, RInt(c.tbase))
                     ELSE RZero
        gdd1 == RMax(RSub(gdd0, f.penalty), RZero)
        cgdd1 == RMax(RZero, RSub(RAdd(f.cgdd, gdd1), f.cgdd_penalty))
    IN  [f EXCEPT !.gdd = gdd1,
                  !.cgdd = cgdd1,
                  !.penalty = IF fd.tmin < -10 THEN RInt(10) ELSE RZero,
                  !.cgdd_penalty = IF fd.tmin < -25 /\ fd.snow_depth <= 0
                                   THEN RMul(cgdd1, Rat(1, 10))
                                   ELSE RZero]

WinterGrainGdd(c, f, fd) ==
    LET gdd0 == IF fd.tmin < -4 THEN RZero
                ELSE IF RLt(RInt(c.tbase), fd.tmean)
                     THEN RSub(fd.tmean, RInt(c.tbase))
                     ELSE RZero
        gdd1 == RMax(RSub(gdd0, f.penalty), RZero)
        cgdd1 == RMax(RZero, RSub(RAdd(f.cgdd, gdd1), f.cgdd_penalty))
    IN  [f EXCEPT !.gdd = gdd1,
                  !.cgdd = cgdd1,
                  !.penalty = IF fd.tmin < -10 THEN RInt(5) ELSE RZero,
                  !.cgdd_penalty = IF fd.tmin < -25 /\ fd.snow_depth <= 0
                                   THEN RMul(cgdd1, Rat(1, 10))
                                   ELSE RZero]

CornTmaxl(c, fd) ==
    IF fd.tmax < -c.tbase THEN -c.tbase
    ELSE IF fd.tmax > TMaxLimit THEN TMaxLimit ELSE fd.tmax

(* mutant: tmin is not raised to the true base -tbase *)
CornTminl_NoBaseClamp(c, fd) ==
    IF fd.tmin > TMaxLimit THEN TMaxLimit ELSE fd.tmin

CornTminl(c, fd) ==
    IF fd.tmin < -c.tbase THEN -c.tbase
    ELSE IF fd.tmin > TMaxLimit THEN TMaxLimit ELSE fd.tmin

CornIncrement(c, fd) ==
    LET tmeanl == Rat(CornTmaxl(c, fd) + CornTminl(c, fd), 2)
    IN  RAdd(tmeanl, RInt(c.tbase))

CornGdd(c, f, fd) == [f EXCEPT !.cgdd = RAdd(f.cgdd, CornIncrement(c, fd))]

(* mutant: the update is made whatever tmean is *)
GenericGdd_Unconditional(c, f, fd) ==
    LET gdd == RSub(fd.tmean, RInt(c.tbase))
    IN  [f EXCEPT !.gdd = gdd, !.cgdd = RAdd(f.cgdd, gdd)]

GenericGdd(c, f, fd) ==
    IF RLt(RInt(c.tbase), fd.tmean)
    THEN LET gdd == RSub(fd.tmean, RInt(c.tbase))
         IN  [f EXCEPT !.gdd = gdd, !.cgdd = RAdd(f.cgdd, gdd)]
    ELSE f

(* mutant: a negative tbase selects the corn policy before the class does *)
StageC_CornFirst(c, f, fd) ==
    IF c.curve_number > 0
    THEN IF c.tbase < 0 THEN CornGdd(c, f, fd)
         ELSE IF IsWinterGrain(c) THEN WinterGrainGdd(c, f, fd)
         ELSE GenericGdd(c, f, fd)
    ELSE f

(* mutant: the policies are applied whatever curve_number is *)
StageC_NoGate(c, f, fd) ==
    IF IsWinterGrain(c) THEN WinterGrainGdd(c, f, fd)
    ELSE IF c.tbase < 0 THEN CornGdd(c, f, fd)
    ELSE GenericGdd(c, f, fd)

StageC(c, f, fd) ==
    IF c.curve_number > 0
    THEN IF IsWinterGrain(c) THEN WinterGrainGdd(c, f, fd)
         ELSE IF c.tbase < 0 THEN CornGdd(c, f, fd)
         ELSE GenericGdd(c, f, fd)
    ELSE f

(* mutant: the daily update runs before the reset detection *)
compute_crop_gdd_foo_CBeforeB(c, f, fd) ==
    StageB(c, StageC(c, [f EXCEPT !.etref_30 = StageA_etref_30(f, fd)], fd), fd)

(* compute_crop_gdd(data, crop, foo, foo_day): new foo, new buffer.         *)
compute_crop_gdd_foo(c, f, fd) ==
    StageC(c, StageB(c, [f EXCEPT !.etref_30 = StageA_etref_30(f, fd)], fd), fd)

compute_crop_gdd_day(fd) == [fd EXCEPT !.etref_array = StageA_array(fd)]

-----------------------------------------------------------------------------
(* crop_day_loop: the per-day population of foo_day (steps shared by all    *)
(* day-loop specifications below).                                         *)

Populate(fd, i, doy, etref, tmax, tmin, snow) ==
    [fd EXCEPT !.sdays = i + 1, !.doy = doy, !.etref = etref,
               !.tmean = Rat(tmax + tmin, 2), !.tmin = tmin, !.tmax = tmax,
               !.snow_depth = snow]

(* Day of year of the next calendar day (dates are consecutive days).       *)
NextDoy(doy, ylen) == IF doy >= ylen THEN 1 ELSE doy + 1

YearLen(y) == IF y % 4 = 0 THEN 366 ELSE 365

NoHist ==
    [pre |-> InitializeCropCycle, pre_day |-> DayData, reset |-> FALSE,
     seen |-> <<>>]
Idle == <<>>

(* The ET adapter (compute_crop_et and the routines it calls, after         *)
(* compute_crop_gdd) owns the season bookkeeping: it may start a season.    *)
AdapterStartsSeason(f, doy) ==
    [f EXCEPT !.in_season = TRUE, !.real_start = TRUE, !.doy_start_cycle = doy]

AdapterEndsSeason(f) ==
    [f EXCEPT !.in_season = FALSE, !.crop_setup_flag = TRUE,
              !.dormant_setup_flag = TRUE]

AdapterOutcomes(f, doy) ==
    {f} \cup (IF f.in_season THEN {AdapterEndsSeason(f)}
                            ELSE {AdapterStartsSeason(f, doy)})

(* foo.setup_crop / foo.setup_dormant: each clears the flag that asked for  *)
(* it; the two tests of crop_day_loop are independent if statements.        *)
SetupCrop(f) == [f EXCEPT !.crop_setup_flag = FALSE]
SetupDormant(f) == [f EXCEPT !.dormant_setup_flag = FALSE]

CallsSetupCrop(f) == ~f.in_season /\ f.crop_setup_flag
AfterSetupCrop(f) == IF CallsSetupCrop(f) THEN SetupCrop(f) ELSE f
CallsSetupDormant(f) == ~AfterSetupCrop(f).in_season /\ AfterSetupCrop(f).dormant_setup_flag
(* mutant: the dormant setup is tested only when the crop setup was not run *)
AfterSetups_ElseIf(f) ==
    IF CallsSetupCrop(f) THEN SetupCrop(f)
    ELSE IF CallsSetupDormant(f) THEN SetupDormant(f) ELSE f

AfterSetups(f) ==
    IF CallsSetupDormant(f) THEN SetupDormant(AfterSetupCrop(f)) ELSE AfterSetupCrop(f)

(* the setups crop_day_loop invokes on a day that starts in state f         *)
SetupsInvoked(f) ==
    (IF CallsSetupCrop(f) THEN {"setup_crop"} ELSE {})
    \cup (IF CallsSetupDormant(f) THEN {"setup_dormant"} ELSE {})

-----------------------------------------------------------------------------
(* Specification SpecGdd: compute_crop_gdd applied on consecutive days to   *)
(* one crop, inputs drawn from GddCrops x GddDays.                          *)

MaxGddDays == 4

GddCrops ==
    { MkCrop(13, WINTER_WHEAT, 13, 0, 274),
      MkCrop(14, FIELD_CORN, 14, -5, 274),
      MkCrop(20, WINTER_CANOLA, 20, 5, 274),
      MkCrop(7, FIELD_CORN, 7, -10, 1),
      MkCrop(8, FIELD_CORN, 8, -8, 1),
      MkCrop(9, FIELD_CORN, 9, -35, 1),
      MkCrop(1, ALFALFA, 1, 5, 1),
      MkCrop(44, BARE_SOIL, 0, 0, 1) }

(* <<tmax, tmin, snow_depth>> of a day *)
GddDays ==
    { <<35, -5, 0>>, <<40, 40, 0>>, <<-20, -26, 0>>, <<-20, -26, 1>>,
      <<-5, -11, 0>>, <<20, 10, 0>> }

GddEtref == 5

(* first day of the run: shortly before the date the crop's reset fires *)
GddStartDoy(c) == IF IsWinterCategory(c) THEN c.crop_gdd_trigger_doy - 3 ELSE 363

InitGdd ==
    /\ pc = "gdd"
    /\ crop \in GddCrops
    /\ foo = InitializeCropCycle
    /\ foo_day = DayData
    /\ hist = NoHist
    /\ run = [i |-> 0, doy |-> GddStartDoy(crop), year |-> 1]
    /\ cyc = Idle
    /\ reg = Idle

GddCall ==
    /\ pc = "gdd"
    /\ run.i < MaxGddDays
    /\ \E d \in GddDays :
         LET fd == Populate(foo_day, run.i, run.doy, GddEtref, d[1], d[2], d[3])
         IN  /\ foo' = compute_crop_gdd_foo(crop, foo, fd)
             /\ foo_day' = compute_crop_gdd_day(fd)
             /\ hist' = [hist EXCEPT !.pre = foo, !.pre_day = foo_day,
                                      !.reset = ResetTriggers(crop, foo, fd)]
    /\ pc' = "et"
    /\ UNCHANGED <<crop, run, cyc, reg>>

GddAdapter ==
    /\ pc = "et"
    /\ foo' \in AdapterOutcomes(foo, foo_day.doy)
    /\ run' = [run EXCEPT !.i = @ + 1, !.doy = NextDoy(@, YearLen(run.year)),
                          !.year = IF run.doy >= YearLen(run.year) THEN @ + 1 ELSE @]
    /\ pc' = "gdd"
    /\ UNCHANGED <<crop, foo_day, hist, cyc, reg>>

NextGdd == GddCall \/ GddAdapter

SpecGdd == InitGdd /\ [][NextGdd]_vars

(* cgdd as Stage C of the last call found it: 0 after a Stage B reset.      *)
CgddAfterStageB == IF hist.reset THEN RZero ELSE hist.pre.cgdd

(* C1: after every call of compute_crop_gdd, cgdd >= 0 and gdd >= 0.        *)
C1_NonNegative ==
    pc = "et" => ~RLt(foo.cgdd, RZero) /\ ~RLt(foo.gdd, RZero)

(* Burn-back scheduled by the previous day D (its tmin, snow depth and the  *)
(* cgdd held at its end), as the claim C5 states it.                        *)
BurnBackOfPrevDay ==
    IF hist.pre_day.tmin < -25 /\ hist.pre_day.snow_depth <= 0
    THEN RMul(hist.pre.cgdd, Rat(1, 10))
    ELSE RZero

WinterGrainCall == pc = "et" /\ IsWinterGrain(crop) /\ crop.curve_number > 0

CornClampCall ==
    /\ pc = "et" /\ ~IsWinterGrain(crop) /\ crop.curve_number > 0
    /\ crop.tbase = -8 /\ foo_day.tmax = 35 /\ foo_day.tmin = -5

(* C6 as stated: corn, tmax = 35, tmin = -5, tbase = -8 uses tmaxl = 30,    *)
(* tminl = -5 and increases cgdd by exactly 4.5.                            *)
C6_CornClampAsStated ==
    CornClampCall =>
        /\ CornTmaxl(crop, foo_day) = 30
        /\ CornTminl(crop, foo_day) = -5
        /\ foo.cgdd = RAdd(CgddAfterStageB, Rat(9, 2))

(* C6 amended: corn, tmax = 35, tmin = -5, tbase = -8 uses tmaxl = 30 and   *)
(* tminl = 8 (tmin raised to the true base -tbase), tmeanl = 19, and Stage  *)
(* C increases cgdd by exactly 11.                                          *)
C6_CornClamp ==
    CornClampCall =>
        /\ CornTmaxl(crop, foo_day) = 30
        /\ CornTminl(crop, foo_day) = 8
        /\ foo.cgdd = RAdd(CgddAfterStageB, RInt(11))

C6_Witness == CornClampCall /\ RLt(RInt(11), foo.cgdd)

(* the winter grain gdd of the day of the last call before any penalty      *)
WinterGrainBase ==
    IF foo_day.tmin < -4 THEN RZero
    ELSE IF RLt(RInt(crop.tbase), foo_day.tmean)
         THEN RSub(foo_day.tmean, RInt(crop.tbase))
         ELSE RZero

-----------------------------------------------------------------------------
(* Specification SpecEt: crop_day_loop over the full date series with a     *)
(* selection window [start, end] of row indices, reference ET drawn from    *)
(* LoopEtrefs.                                                              *)

LoopTail == 3
MaxChanges == 1
LoopStarts == {0, 10, 35}
LoopEtrefs == {1, 5}
LoopCrop == MkCrop(1, ALFALFA, 1, 5, 1)
LoopTmax == 20
LoopTmin == 10
(* days of year on which the adapter may start a season in this run *)
LoopSeasonDoys == {12, 40}

(* mutant: the mask has no upper end *)
DateMask_NoEnd(r, i) == r.start <= i

(* date_mask[i], for a window given as first and last row                   *)
DateMask(r, i) == r.start <= i /\ i <= r.end

InitEt ==
    /\ pc = "loop"
    /\ crop = LoopCrop
    /\ foo = InitializeCropCycle
    /\ foo_day = DayData
    /\ hist = NoHist
    /\ \E s \in LoopStarts :
         run = [i |-> 0, doy |-> 1, year |-> 1, start |-> s,
                end |-> s + NSlots - 1 + LoopTail,
                nrows |-> s + NSlots + LoopTail + 1,
                changes |-> 0, nout |-> 0, rec |-> <<>>]
    /\ cyc = Idle
    /\ reg = Idle

NextRow(r) ==
    [r EXCEPT !.i = @ + 1, !.doy = NextDoy(@, YearLen(r.year)),
              !.year = IF r.doy >= YearLen(r.year) THEN @ + 1 ELSE @]

(* one pass of the for loop on a row outside the window: continue           *)
LoopSkip ==
    /\ pc = "loop"
    /\ run.i < run.nrows
    /\ ~DateMask(run, run.i)
    /\ run' = NextRow(run)
    /\ UNCHANGED <<pc, crop, foo, foo_day, hist, cyc, reg>>

(* foo.etc_act, etc_pot, etc_bas, ...: computed by the adapter from the     *)
(* state it is handed; kept as the part of that state they depend on.        *)
AdapterOutputs(f) == <<f.etref_30, f.cgdd>>

OutputRecord(r, f, fd) ==
    [row |-> r.i, doy |-> fd.doy, etref |-> fd.etref, etc |-> AdapterOutputs(f),
     in_season |-> f.in_season]

(* one pass of the for loop on a row of the window *)
LoopDay ==
    /\ pc = "loop"
    /\ run.i < run.nrows
    /\ DateMask(run, run.i)
    /\ \E e \in LoopEtrefs :
         LET changed == hist.seen # <<>> /\ hist.seen[Len(hist.seen)] # e
             f0 == AfterSetups(foo)
             fd == Populate(foo_day, run.i, run.doy, e, LoopTmax, LoopTmin, 0)
             f1 == compute_crop_gdd_foo(crop, f0, fd)
         IN  /\ changed => run.changes < MaxChanges
             /\ foo_day' = compute_crop_gdd_day(fd)
             /\ \E f2 \in AdapterOutcomes(f1, fd.doy) :
                  /\ f2.doy_start_cycle \in {0} \cup LoopSeasonDoys
                  /\ foo' = f2
                  /\ run' = [NextRow(run) EXCEPT
                               !.changes = IF changed THEN @ + 1 ELSE @,
                               !.nout = @ + 1,
                               !.rec = OutputRecord(run, f2, fd)]
             /\ hist' = [pre |-> f0, pre_day |-> foo_day,
                         reset |-> ResetTriggers(crop, f0, fd),
                         seen |-> Append(hist.seen, e),
                         before |-> foo, mid |-> AfterSetupCrop(foo),
                         setups |-> SetupsInvoked(foo)]
    /\ UNCHANGED <<pc, crop, cyc, reg>>

LoopEnd ==
    /\ pc = "loop"
    /\ run.i >= run.nrows
    /\ pc' = "done"
    /\ UNCHANGED <<crop, foo, foo_day, hist, run, cyc, reg>>

NextEt == LoopSkip \/ LoopDay \/ LoopEnd

SpecEt == InitEt /\ [][NextEt]_vars

RECURSIVE SumSeq(_)
SumSeq(q) == IF q = <<>> THEN 0 ELSE Head(q) + SumSeq(Tail(q))

LastN(q, n) == SubSeq(q, Len(q) - n + 1, Len(q))
MeanOfLast(q, n) == Rat(SumSeq(LastN(q, n)), n)
Min(a, b) == IF a < b THEN a ELSE b

(* C2: called on days n = 1, 2, 3, ... (window starting at the first row),  *)
(* after day n etref_30 is the mean of the last min(n, 30) reference-ET     *)
(* values; a constant reference ET c gives etref_30 = c from day 30 on.     *)
C2_RollingMean ==
    (run.start = 0 /\ hist.seen # <<>>) =>
        /\ foo.etref_30 = MeanOfLast(hist.seen, Min(Len(hist.seen), NSlots))
        /\ \A c \in LoopEtrefs :
             (Len(hist.seen) >= NSlots /\ \A k \in 1..Len(hist.seen) : hist.seen[k] = c)
                 => foo.etref_30 = RInt(c)

C2_Witness ==
    /\ run.start = 0
    /\ Len(hist.seen) > NSlots
    /\ hist.seen[1] # hist.seen[Len(hist.seen)]
    /\ foo_day.sdays = Len(hist.seen)

-----------------------------------------------------------------------------
(* Specification SpecYear: one crop processed over consecutive calendar     *)
(* days of several years (leap years included), crop_gdd_trigger_doy drawn  *)
(* from YearTriggers for a winter and a standard category crop.             *)

YearSpan == 3
YearTriggers == {1, 2, 100, 166, 167, 274, 365}
YearStartDoys == {1, 200}
YearFirstYears == {2, 3}
YearSeasonDoys == {120}
YearTmax == 20
YearTmin == 10
YearEtref == 5

YearCrops ==
    { MkCrop(13, WINTER_WHEAT, 13, 0, t) : t \in YearTriggers } \cup
    { MkCrop(1, ALFALFA, 1, 5, t) : t \in YearTriggers }

InitYear ==
    /\ pc = "year"
    /\ crop \in YearCrops
    /\ foo = InitializeCropCycle
    /\ foo_day = DayData
    /\ hist = NoHist
    /\ \E d \in YearStartDoys, y \in YearFirstYears :
         run = [i |-> 0, doy |-> d, year |-> y, first_year |-> y,
                resets |-> 0, entered |-> FALSE,
                closed |-> [entered |-> FALSE, resets |-> 0, year |-> 0]]
    /\ cyc = Idle
    /\ reg = Idle

(* one day of the loop; run.resets counts the resets of the calendar year   *)
(* being processed, run.entered tells that the year was entered through a   *)
(* year change of the run, run.closed keeps both for the year just ended.   *)
YearDay ==
    /\ pc = "year"
    /\ run.year < run.first_year + YearSpan
    /\ LET f0 == AfterSetups(foo)
           fd == Populate(foo_day, run.i, run.doy, YearEtref, YearTmax, YearTmin, 0)
           f1 == compute_crop_gdd_foo(crop, f0, fd)
           fired == ResetTriggers(crop, f0, fd)
           n == run.resets + (IF fired THEN 1 ELSE 0)
           last == run.doy >= YearLen(run.year)
       IN  /\ foo_day' = compute_crop_gdd_day(fd)
           /\ \E f2 \in AdapterOutcomes(f1, fd.doy) :
                /\ f2.doy_start_cycle \in {0} \cup YearSeasonDoys
                /\ foo' = f2
           /\ hist' = [hist EXCEPT !.pre = f0, !.pre_day = foo_day, !.reset = fired]
           /\ run' = [NextRow(run) EXCEPT
                        !.resets = IF last THEN 0 ELSE n,
                        !.entered = IF last THEN TRUE ELSE @,
                        !.closed = IF last
                                   THEN [entered |-> run.entered, resets |-> n,
                                         year |-> run.year]
                                   ELSE @]
    /\ UNCHANGED <<pc, crop, cyc, reg>>

YearEnd ==
    /\ pc = "year"
    /\ run.year >= run.first_year + YearSpan
    /\ pc' = "done"
    /\ UNCHANGED <<crop, foo, foo_day, hist, run, cyc, reg>>

NextYear == YearDay \/ YearEnd

SpecYear == InitYear /\ [][NextYear]_vars

(* C4: every calendar year the run enters through a year change and        *)
(* processes to its end holds exactly one Stage B reset, for every crop     *)
(* category and every trigger day.                                          *)
C4_OneResetPerYear ==
    run.closed.entered => run.closed.resets = 1

-----------------------------------------------------------------------------
(* Specification SpecCycle: crop_cycle for one cell: the loop over the      *)
(* sorted crop parameters, one output file and one crop_day_loop per        *)
(* active crop. open() and the daily step may raise; crop_cycle has no      *)
(* exception handler, so a raised exception leaves crop_cycle.              *)

CycleRows == 2
CycleCropNums == {3, 7, 13}

CycleParams ==
    [n \in CycleCropNums |->
        CASE n = 3 -> MkCrop(3, ALFALFA, 3, 5, 1)
          [] n = 7 -> MkCrop(7, FIELD_CORN, 7, -10, 1)
          [] OTHER -> MkCrop(13, WINTER_WHEAT, 13, 0, 274)]

(* sorted(et_cell.crop_params.items()): crop numbers in increasing order     *)
RECURSIVE SortedNums(_)
SortedNums(S) ==
    IF S = {} THEN <<>>
    ELSE LET lo == CHOOSE x \in S : \A y \in S : x <= y
         IN  <<lo>> \o SortedNums(S \ {lo})

CycleOrder == SortedNums(CycleCropNums)

(* output_name = '%s_%s.dat' % (cell_id, crop.class_number)                  *)
OutputPath(c) == c.class_number

CyclePaths == { OutputPath(CycleParams[n]) : n \in CycleCropNums }

(* the cell's input series by row                                           *)
CycleEtref(i) == 5 - (i % 2)
CycleTmax(i) == 20 + i
CycleTmin(i) == 10

(* crop_cycle line 62 / crop_day_loop line 102: new objects, whatever the   *)
(* previous crop left behind.                                               *)
(* mutant: the state object of the previous crop is used again *)
NewCropState_Reused(old) == old

NewCropState(old) == InitializeCropCycle
NewDayState(old) == DayData

(* the adapter of this run: starts the season of a crop on the row given    *)
(* for it (an input of the run), and changes nothing on other rows.         *)
CycleAdapter(f, fd, season_row) ==
    IF fd.sdays - 1 = season_row /\ ~f.in_season
    THEN AdapterStartsSeason(f, fd.doy) ELSE f

InitCycle ==
    /\ pc = "crops"
    /\ crop = CycleParams[CycleOrder[1]]
    /\ foo = InitializeCropCycle
    /\ foo_day = DayData
    /\ hist = NoHist
    /\ run = [i |-> 0, doy |-> 1, year |-> 1, start |-> 0, end |-> CycleRows - 1,
              nrows |-> CycleRows]
    /\ \E flags \in [CycleCropNums -> BOOLEAN],
          bad \in { {} } \cup { {q} : q \in CyclePaths },
          rows \in [CycleCropNums -> 0..1] :
         cyc = [k |-> 1, crop_flags |-> flags, unwritable |-> bad,
                season_row |-> rows, cur |-> 0, cause |-> "none",
                files |-> [q \in CyclePaths |-> "none"],
                out |-> [q \in CyclePaths |-> <<>>],
                ran |-> {}]
    /\ reg = Idle

CycleNum == CycleOrder[cyc.k]

(* the crop is not used at the station: continue                            *)
CycleSkipCrop ==
    /\ pc = "crops"
    /\ cyc.k <= Len(CycleOrder)
    /\ ~cyc.crop_flags[CycleNum]
    /\ cyc' = [cyc EXCEPT !.k = @ + 1]
    /\ UNCHANGED <<pc, crop, foo, foo_day, hist, run, reg>>

(* foo = InitializeCropCycle(); open(output_path, 'w'); write header;       *)
(* crop_day_loop starts with foo_day = DayData()                            *)
CycleOpen ==
    /\ pc = "crops"
    /\ cyc.k <= Len(CycleOrder)
    /\ cyc.crop_flags[CycleNum]
    /\ LET c == CycleParams[CycleNum]
           q == OutputPath(c)
       IN  /\ q \notin cyc.unwritable
           /\ crop' = c
           /\ foo' = NewCropState(foo)
           /\ foo_day' = NewDayState(foo_day)
           /\ cyc' = [cyc EXCEPT !.cur = CycleNum,
                                 !.files[q] = "open",
                                 !.out[q] = <<"header">>]
    /\ run' = [run EXCEPT !.i = 0, !.doy = 1, !.year = 1]
    /\ hist' = NoHist
    /\ pc' = "days"
    /\ UNCHANGED reg

(* open() raises IOError: nothing catches it                                *)
CycleOpenRaises ==
    /\ pc = "crops"
    /\ cyc.k <= Len(CycleOrder)
    /\ cyc.crop_flags[CycleNum]
    /\ LET c == CycleParams[CycleNum]
       IN  /\ OutputPath(c) \in cyc.unwritable
           /\ crop' = c
           /\ foo' = NewCropState(foo)
           /\ cyc' = [cyc EXCEPT !.cur = CycleNum, !.cause = "open"]
    /\ pc' = "raised"
    /\ UNCHANGED <<foo_day, hist, run, reg>>

CycleStateAfterDay(c, f, fd, r, season_row) ==
    LET f0 == AfterSetups(f)
        d == Populate(fd, r.i, r.doy, CycleEtref(r.i), CycleTmax(r.i), CycleTmin(r.i), 0)
        f1 == compute_crop_gdd_foo(c, f0, d)
    IN  [foo |-> CycleAdapter(f1, d, season_row), foo_day |-> compute_crop_gdd_day(d)]

(* one pass of crop_day_loop's for loop, a record written to output_f       *)
CycleDay ==
    /\ pc = "days"
    /\ run.i < run.nrows
    /\ DateMask(run, run.i)
    /\ LET st == CycleStateAfterDay(crop, foo, foo_day, run, cyc.season_row[cyc.cur])
           q == OutputPath(crop)
       IN  /\ foo' = st.foo
           /\ foo_day' = st.foo_day
           /\ cyc' = [cyc EXCEPT !.out[q] = Append(@, OutputRecord(run, st.foo, st.foo_day))]
    /\ run' = NextRow(run)
    /\ UNCHANGED <<pc, crop, hist, reg>>

(* a step of the daily loop raises (the adapter, a lookup, the write)       *)
CycleDayRaises ==
    /\ pc = "days"
    /\ run.i < run.nrows
    /\ cyc' = [cyc EXCEPT !.cause = "day"]
    /\ pc' = "raised"
    /\ UNCHANGED <<crop, foo, foo_day, hist, run, reg>>

(* crop_day_loop returns; output_f.close()                                  *)
CycleClose ==
    /\ pc = "days"
    /\ run.i >= run.nrows
    /\ cyc' = [cyc EXCEPT !.files[OutputPath(crop)] = "closed",
                          !.ran = @ \cup {cyc.cur},
                          !.k = @ + 1]
    /\ pc' = "crops"
    /\ UNCHANGED <<crop, foo, foo_day, hist, run, reg>>

CycleEnd ==
    /\ pc = "crops"
    /\ cyc.k > Len(CycleOrder)
    /\ pc' = "done"
    /\ UNCHANGED <<crop, foo, foo_day, hist, run, cyc, reg>>

NextCycle ==
    \/ CycleSkipCrop \/ CycleOpen \/ CycleOpenRaises
    \/ CycleDay \/ CycleDayRaises \/ CycleClose \/ CycleEnd

SpecCycle == InitCycle /\ [][NextCycle]_vars

(* the records a run of crop number n alone writes for its first m rows,    *)
(* from a newly constructed CropState and DayState                          *)
RECURSIVE AloneState(_, _, _)
AloneState(n, m, season_row) ==
    IF m = 0 THEN [foo |-> InitializeCropCycle, foo_day |-> DayData]
    ELSE LET st == AloneState(n, m - 1, season_row)
             r == [i |-> m - 1, doy |-> m]
         IN  CycleStateAfterDay(CycleParams[n], st.foo, st.foo_day, r, season_row)

AloneRecords(n, m, season_row) ==
    [j \in 1..m |->
        LET st == AloneState(n, j, season_row)
        IN  OutputRecord([i |-> j - 1], st.foo, st.foo_day)]

C8_StreamsClosed ==
    pc \in {"crops", "done", "raised"} => \A q \in CyclePaths : cyc.files[q] # "open"

(* C9: when the only failure of the run is an output file that cannot be    *)
(* opened, every other active crop has been processed and has its output    *)
(* written when crop_cycle is left.                                         *)
C9_OtherCropsContinue ==
    (pc \in {"done", "raised"} /\ cyc.cause # "day") =>
        \A n \in CycleCropNums :
            (cyc.crop_flags[n] /\ OutputPath(CycleParams[n]) \notin cyc.unwritable)
                => /\ cyc.files[OutputPath(CycleParams[n])] = "closed"
                   /\ Len(cyc.out[OutputPath(CycleParams[n])]) = 1 + CycleRows

-----------------------------------------------------------------------------
(* Specification SpecLoad: ETCellData after set_cell_properties, loading    *)
(* the crops file, the cuttings file, the static crop parameters and the    *)
(* spatial (per cell) crop parameter records. File rows and records are     *)
(* drawn row by row from the sets below.                                    *)

MaxFileRows == 2
RegCells == {"A", "B"}
FileCellIds == {"A", "B", "X"}
FileCropNums == {3, 13}
StaticCropNums == {3, 7}
StaticTbase == 5
SpatialTbase == 8
SpatialFields == {"CELL_ID", "CGDD_Tbase", "Beef_Cut"}

(* param_field_dict / cutting_field_dict lookups (None when absent)         *)
ParamName(field) == IF field = "CGDD_Tbase" THEN "tbase" ELSE "None"
CuttingName(field) == IF field = "Beef_Cut" THEN "beef_cuttings" ELSE "None"

NoLog == [level |-> "none", cell_id |-> "", crop_num |-> 0]

InitLoad ==
    /\ pc = "set_cell_crops"
    /\ crop = LoopCrop
    /\ foo = InitializeCropCycle
    /\ foo_day = DayData
    /\ hist = NoHist
    /\ run = Idle
    /\ cyc = Idle
    /\ reg = [et_cells_dict |-> RegCells,
              n |-> 0,
              crop_flags |-> [c \in RegCells |-> {}],
              crop_num_list |-> {},
              cuttings |-> [c \in RegCells |-> 0],
              crop_objs |-> [k \in StaticCropNums |-> 0],
              crop_params |-> [c \in RegCells |-> {}],
              rec |-> [cell_id |-> "", crop_num |-> 0, todo |-> {}],
              log |-> NoLog,
              unresolved |-> {},
              overridden |-> {},
              prompts |-> 0]

(* set_cell_crops: one row of the crops file                                *)
SetCellCropsRow ==
    /\ pc = "set_cell_crops"
    /\ reg.n < MaxFileRows
    /\ \E cell_id \in FileCellIds, active \in SUBSET FileCropNums :
         IF cell_id \notin reg.et_cells_dict
         THEN /\ reg' = [reg EXCEPT
                           !.log = [level |-> "error", cell_id |-> cell_id, crop_num |-> 0],
                           !.unresolved = @ \cup {<<cell_id, 0>>}]
              /\ pc' = "exited"
         ELSE /\ reg' = [reg EXCEPT !.n = @ + 1,
                                    !.crop_flags[cell_id] = active,
                                    !.crop_num_list = @ \cup active]
              /\ pc' = pc
    /\ UNCHANGED <<crop, foo, foo_day, hist, run, cyc>>

SetCellCropsDone ==
    /\ pc = "set_cell_crops"
    /\ reg.n > 0
    /\ reg' = [reg EXCEPT !.n = 0]
    /\ pc' = "set_cell_cuttings"
    /\ UNCHANGED <<crop, foo, foo_day, hist, run, cyc>>

(* set_cell_cuttings: one line of the cuttings file                         *)
SetCellCuttingsRow ==
    /\ pc = "set_cell_cuttings"
    /\ reg.n < MaxFileRows
    /\ \E cell_id \in FileCellIds :
         IF cell_id \notin reg.et_cells_dict
         THEN /\ reg' = [reg EXCEPT
                           !.log = [level |-> "error", cell_id |-> cell_id, crop_num |-> 0],
                           !.unresolved = @ \cup {<<cell_id, 0>>}]
              /\ pc' = "exited"
         ELSE /\ reg' = [reg EXCEPT !.n = @ + 1, !.cuttings[cell_id] = 3]
              /\ pc' = pc
    /\ UNCHANGED <<crop, foo, foo_day, hist, run, cyc>>

SetCellCuttingsDone ==
    /\ pc = "set_cell_cuttings"
    /\ reg' = [reg EXCEPT !.n = 0]
    /\ pc' = "set_static_crop_params"
    /\ UNCHANGED <<crop, foo, foo_day, hist, run, cyc>>

(* set_static_crop_params: cell.crop_params = crop_params.copy() for every  *)
(* cell: a new dict per cell holding the same crop parameter objects        *)
SetStaticCropParams ==
    /\ pc = "set_static_crop_params"
    /\ reg' = [reg EXCEPT !.crop_objs = [k \in StaticCropNums |-> StaticTbase],
                          !.crop_params = [c \in RegCells |-> StaticCropNums]]
    /\ pc' = "set_spatial_crop_params"
    /\ UNCHANGED <<crop, foo, foo_day, hist, run, cyc>>

(* set_spatial_crop_params: the next record of the DBF of an active crop    *)
(* (DBFs are processed in increasing crop number)                           *)
SpatialRecord ==
    /\ pc = "set_spatial_crop_params"
    /\ reg.rec.todo = {}
    /\ reg.n < MaxFileRows
    /\ \E cell_id \in FileCellIds, crop_num \in reg.crop_num_list :
         /\ crop_num >= reg.rec.crop_num
         /\ reg' = [reg EXCEPT !.n = @ + 1,
                               !.rec = [cell_id |-> cell_id, crop_num |-> crop_num,
                                        todo |-> SpatialFields]]
    /\ UNCHANGED <<pc, crop, foo, foo_day, hist, run, cyc>>

SpatialLookupFails(r, field) ==
    IF ParamName(field) # "None"
    THEN IF r.cell_id \in reg.et_cells_dict
         THEN r.crop_num \notin reg.crop_params[r.cell_id]
         ELSE TRUE
    ELSE IF CuttingName(field) # "None"
         THEN r.cell_id \notin reg.et_cells_dict
         ELSE FALSE

(* one field of the current record whose setattr succeeds, or which is      *)
(* neither a crop parameter nor a cutting field                             *)
SpatialField ==
    /\ pc = "set_spatial_crop_params"
    /\ \E field \in reg.rec.todo :
         LET r == reg.rec
         IN  /\ ~SpatialLookupFails(r, field)
             /\ reg' = [reg EXCEPT
                   !.rec.todo = @ \ {field},
                   !.crop_objs = IF ParamName(field) # "None"
                                 THEN [@ EXCEPT ![r.crop_num] = SpatialTbase] ELSE @,
                   !.overridden = IF ParamName(field) # "None"
                                  THEN @ \cup {<<r.cell_id, r.crop_num>>} ELSE @,
                   !.cuttings = IF ParamName(field) = "None" /\ CuttingName(field) # "None"
                                THEN [@ EXCEPT ![r.cell_id] = 4] ELSE @]
    /\ UNCHANGED <<pc, crop, foo, foo_day, hist, run, cyc>>

(* one field whose lookup raises: the except clause logs a warning naming   *)
(* cell_id and crop_num, waits in raw_input('ENTER'), and the loop goes on  *)
SpatialFieldWarns ==
    /\ pc = "set_spatial_crop_params"
    /\ \E field \in reg.rec.todo :
         LET r == reg.rec
         IN  /\ SpatialLookupFails(r, field)
             /\ reg' = [reg EXCEPT
                   !.rec.todo = @ \ {field},
                   !.log = [level |-> "warning", cell_id |-> r.cell_id,
                            crop_num |-> r.crop_num],
                   !.unresolved = @ \cup {<<r.cell_id, r.crop_num>>},
                   !.prompts = @ + 1]
    /\ UNCHANGED <<pc, crop, foo, foo_day, hist, run, cyc>>

SpatialDone ==
    /\ pc = "set_spatial_crop_params"
    /\ reg.rec.todo = {}
    /\ pc' = "loaded"
    /\ UNCHANGED <<crop, foo, foo_day, hist, run, cyc, reg>>

NextLoad ==
    \/ SetCellCropsRow \/ SetCellCropsDone
    \/ SetCellCuttingsRow \/ SetCellCuttingsDone
    \/ SetStaticCropParams
    \/ SpatialRecord \/ SpatialField \/ SpatialFieldWarns \/ SpatialDone

SpecLoad == InitLoad /\ [][NextLoad]_vars

(* C10: once a cell or crop parameter lookup could not be resolved, the run *)
(* has been aborted with a diagnostic naming the missing key; processing    *)
(* does not go on past the failed lookup.                                   *)
C10_UnresolvedLookupAborts ==
    reg.unresolved # {} =>
        /\ pc = "exited"
        /\ <<reg.log.cell_id, reg.log.crop_num>> \in reg.unresolved

-----------------------------------------------------------------------------
(* Specification SpecRh: crop_day_loop over a few days whose dew point and  *)
(* unadjusted maximum temperature (refet TDew, TMax) are drawn from         *)
(* RhTemps, sentinel values below -90 included.                            *)

MaxRhDays == 2
RhTemps == {-99, -90, -40, 0, 20, 30}
RhEtref == 5
RhTmax == 20
RhTmin == 10
RhSeasonDoys == {1}

(* util.aFNEs: saturation vapour pressure at temperature t (deg C), in      *)
(* units of 1e-6 kPa: 0.6108 * exp(17.27 t / (t + 237.3)), positive and      *)
(* increasing in t.                                                         *)
aFNEs(t) ==
    RInt(CASE t = -99 -> 3 [] t = -91 -> 13 [] t = -90 -> 16
           [] t = -40 -> 18411 [] t = 0 -> 610800 [] t = 10 -> 1227900
           [] t = 20 -> 2338300 [] t = 30 -> 4243000)

RMin(a, b) == IF RLt(b, a) THEN b ELSE a

(* foo_day.tmax_orig, foo_day.tdew: read from the reference ET table        *)
SetHumidityInputs(fd, tmax_orig, tdew) ==
    [tmax_orig |-> tmax_orig, tdew |-> tdew] @@ fd

(* mutant: the ratio is stored without the cap at 100 *)
rh_min_NoCap(fd) ==
    IF fd.tdew < -90 \/ fd.tmax_orig < -90
    THEN RInt(30)
    ELSE RMul(RDiv(aFNEs(fd.tdew), aFNEs(fd.tmax_orig)), RInt(100))

rh_min(fd) ==
    IF fd.tdew < -90 \/ fd.tmax_orig < -90
    THEN RInt(30)
    ELSE RMin(RMul(RDiv(aFNEs(fd.tdew), aFNEs(fd.tmax_orig)), RInt(100)),
              RInt(100))

SetRhMin(fd) == [rh_min |-> rh_min(fd)] @@ fd

InitRh ==
    /\ pc = "loop"
    /\ crop = LoopCrop
    /\ foo = InitializeCropCycle
    /\ foo_day = DayData
    /\ hist = NoHist
    /\ run = [i |-> 0, doy |-> 1, year |-> 1, nrows |-> MaxRhDays]
    /\ cyc = Idle
    /\ reg = Idle

(* one pass of the for loop: setups, population of foo_day, rh_min,         *)
(* compute_crop_et (compute_crop_gdd and the adapter's season bookkeeping)  *)
RhDay ==
    /\ pc = "loop"
    /\ run.i < run.nrows
    /\ \E tmax_orig \in RhTemps, tdew \in RhTemps :
         LET f0 == AfterSetups(foo)
             fd == SetRhMin(SetHumidityInputs(
                       Populate(foo_day, run.i, run.doy, RhEtref, RhTmax, RhTmin, 0),
                       tmax_orig, tdew))
             f1 == compute_crop_gdd_foo(crop, f0, fd)
         IN  /\ foo_day' = compute_crop_gdd_day(fd)
             /\ \E f2 \in AdapterOutcomes(f1, fd.doy) :
                  /\ f2.doy_start_cycle \in {0} \cup RhSeasonDoys
                  /\ foo' = f2
             /\ hist' = [hist EXCEPT !.pre = f0, !.pre_day = foo_day,
                                      !.reset = ResetTriggers(crop, f0, fd)]
    /\ run' = NextRow(run)
    /\ UNCHANGED <<pc, crop, cyc, reg>>

RhEnd ==
    /\ pc = "loop"
    /\ run.i >= run.nrows
    /\ pc' = "done"
    /\ UNCHANGED <<crop, foo, foo_day, hist, run, cyc, reg>>

NextRh == RhDay \/ RhEnd

SpecRh == InitRh /\ [][NextRh]_vars

(* C11: on every processed day rh_min is 30 when the dew point or the       *)
(* day's maximum temperature is below -90, and otherwise the smaller of     *)
(* 100 es(tdew) / es(tmax) and 100; rh_min never exceeds 100 and the loop   *)
(* is never left through an error.                                          *)
C11_RhMin ==
    run.i >= 1 =>
        /\ pc \in {"loop", "done"}
        /\ ~RLt(RInt(100), foo_day.rh_min)
        /\ IF foo_day.tdew < -90 \/ foo_day.tmax_orig < -90
           THEN foo_day.rh_min = RInt(30)
           ELSE LET ratio == Rat(100 * aFNEs(foo_day.tdew)[1] * aFNEs(foo_day.tmax_orig)[2],
                                 aFNEs(foo_day.tmax_orig)[1] * aFNEs(foo_day.tdew)[2])
                IN  foo_day.rh_min = (IF RLt(ratio, RInt(100)) THEN ratio ELSE RInt(100))

(* a day with a sentinel maximum temperature and a valid dew point, passed  *)
(* with the fallback value, followed by a day whose dew point is above its  *)
(* maximum temperature (ratio above 100, capped)                            *)
C11_Witness ==
    /\ run.i = 2
    /\ pc = "done"
    /\ hist.pre_day.tmax_orig < -90 /\ hist.pre_day.tdew >= -90
    /\ hist.pre_day.rh_min = RInt(30)
    /\ foo_day.tdew > foo_day.tmax_orig /\ foo_day.tmax_orig >= -90
    /\ foo_day.rh_min = RInt(100)

(* cell.crop_params[crop_num].tbase: the cell's dict maps the crop number   *)
(* to the crop parameter object, whose attribute is read                    *)
CellCropParam(cell_id, crop_num) == reg.crop_objs[crop_num]

(* C12: after the static and the spatial parameters are set, a parameter    *)
(* of crop k in cell B for which no spatial record (B, k) was applied still *)
(* has its static value: an override for (A, k) changes cell A only.        *)
C12_OverrideStaysInCell ==
    pc \in {"set_spatial_crop_params", "loaded"} =>
        \A cell_id \in RegCells :
            \A crop_num \in reg.crop_params[cell_id] :
                <<cell_id, crop_num>> \notin reg.overridden =>
                    CellCropParam(cell_id, crop_num) = StaticTbase

-----------------------------------------------------------------------------
(* Specification SpecClimate: ETCell.process_climate on the daily weather   *)
(* record of one cell. The record starts on day ClimateFirstDoys of a year  *)
(* of ClimateFirstYears (every fourth year is a leap year) and holds        *)
(* consecutive days, one to MaxRecordDays of them (records of full length   *)
(* start at ClimateLongStarts, in regime 0); the station is not arid.       *)

MaxRecordDays == 400
MaxDoy == 366
ClimateFirstYears == {3, 4}
ClimateFirstDoys == {1, 100, 200, 360}
ClimateLengths == {1, 5, 12, 40, MaxRecordDays}
ClimateLongStarts == {<<3, 1>>, <<4, 1>>, <<3, 360>>}
ClimateRegimes == {0, 1}
ClimateSnowfall == {0, 10}
ClimateSnowDepth == 4
ClimateAridity == 0

(* int(ts.strftime('%j')) and ts.year of the k-th day of the record         *)
RECURSIVE ClimateDate(_, _, _)
ClimateDate(year, doy, k) ==
    IF k = 1 THEN [year |-> year, doy |-> doy]
    ELSE IF doy + k - 1 <= YearLen(year) THEN [year |-> year, doy |-> doy + k - 1]
    ELSE ClimateDate(year + 1, 1, k - (YearLen(year) - doy + 1))

(* the weather of a day: regime 1 has a cold season with frost, and snow    *)
(* falls on every third day of it when the record has snowfall              *)
ColdSeason(regime, doy) == regime = 1 /\ (doy < 20 \/ doy > 362 \/ doy % 10 = 5)

ClimateTmax(regime, year, doy) ==
    IF ColdSeason(regime, doy) THEN 2 * (year % 2) - 6
    ELSE 18 + (doy % 5) + 2 * (year % 2)

ClimateTmin(regime, year, doy) == ClimateTmax(regime, year, doy) - 9

WeatherRow(first_year, first_doy, k, regime, snowfall) ==
    LET dt == ClimateDate(first_year, first_doy, k)
    IN  [year |-> dt.year, doy |-> dt.doy,
         tmax |-> ClimateTmax(regime, dt.year, dt.doy),
         tmin |-> ClimateTmin(regime, dt.year, dt.doy),
         snow |-> IF ColdSeason(regime, dt.doy) /\ dt.doy % 3 = 0 THEN snowfall ELSE 0,
         snow_depth |-> ClimateSnowDepth]

NoClimate == [main_t30_lt |-> <<>>, main_cgdd_0_lt |-> <<>>]

InitClimate ==
    /\ pc = "process_climate"
    /\ crop = LoopCrop
    /\ foo = InitializeCropCycle
    /\ foo_day = DayData
    /\ hist = NoHist
    /\ run = Idle
    /\ cyc = Idle
    /\ \E first_year \in ClimateFirstYears, first_doy \in ClimateFirstDoys,
          n \in ClimateLengths, regime \in ClimateRegimes,
          snowfall \in ClimateSnowfall :
         /\ n = MaxRecordDays =>
                /\ <<first_year, first_doy>> \in ClimateLongStarts
                /\ regime = 0 /\ snowfall = 0
         /\ reg = [aridity_rating |-> ClimateAridity,
                   weather_pd |-> [k \in 1..n |->
                       WeatherRow(first_year, first_doy, k, regime, snowfall)],
                   climate_pd |-> <<>>,
                   climate |-> NoClimate]

(* climate_pd[['tmax', 'tmin']].mean(axis=1)                                *)
TmeanColumn(rows) == [k \in DOMAIN rows |-> Rat(rows[k].tmax + rows[k].tmin, 2)]

RECURSIVE RSumFromTo(_, _, _)
RSumFromTo(col, a, b) ==
    IF a > b THEN RZero
    ELSE IF a = b THEN col[a]
    ELSE LET m == (a + b) \div 2
         IN  RAdd(RSumFromTo(col, a, m), RSumFromTo(col, m + 1, b))

(* pd.rolling_mean(col, window=window, min_periods=1)                       *)
rolling_mean(col, window) ==
    [k \in DOMAIN col |->
        LET a == IF k > window THEN k - window + 1 ELSE 1
        IN  RDiv(RSumFromTo(col, a, k), RInt(k - a + 1))]

(* cgdd = tmean, set to 0 where tmean <= 0                                  *)
GddColumn(tmean) ==
    [k \in DOMAIN tmean |-> IF ~RLt(RZero, tmean[k]) THEN RZero ELSE tmean[k]]

(* mutant: one running sum over the whole record, no restart at a new year *)
CumSumRows_NoRestart(rows, gdd, a, b) ==
    [j \in 1..(b - a + 1) |-> RSumFromTo(gdd, a, a + j - 1)]

(* groupby(calendar year).cgdd.cumsum(): the running sum of the days of     *)
(* the same year up to the day, for the rows a..b (the rows are in date     *)
(* order: the sums of the two halves are joined where the year goes on)     *)
RECURSIVE CumSumRows(_, _, _, _)
CumSumRows(rows, gdd, a, b) ==
    IF a = b THEN <<gdd[a]>>
    ELSE LET m == (a + b) \div 2
             lo == CumSumRows(rows, gdd, a, m)
             hi == CumSumRows(rows, gdd, m + 1, b)
         IN  lo \o [j \in 1..(b - m) |->
                       IF rows[m + j].year = rows[m].year
                       THEN RAdd(lo[m - a + 1], hi[j]) ELSE hi[j]]

CumSumByYear(rows, gdd) == CumSumRows(rows, gdd, 1, Len(rows))

RECURSIVE RSumOver(_, _)
RSumOver(col, ks) ==
    IF ks = {} THEN RZero
    ELSE LET k == CHOOSE x \in ks : TRUE
         IN  RAdd(col[k], RSumOver(col, ks \ {k}))

(* np.array(frame.groupby('doy').mean()[col]): one entry for each day of    *)
(* year that occurs in the record, in increasing order of the day of year   *)
GroupByDoyMean(rows, col) ==
    LET present == {rows[k].doy : k \in DOMAIN rows}
        doys == SelectSeq([d \in 1..MaxDoy |-> d], LAMBDA d : d \in present)
    IN  [j \in 1..Len(doys) |->
            LET ks == {k \in DOMAIN rows : rows[k].doy = doys[j]}
            IN  RDiv(RSumOver(col, ks), RInt(Cardinality(ks)))]

(* mutant: the array is left as grouped, nothing is inserted at index 0 *)
InsertFirst_Nothing(arr) == arr

(* np.insert(arr, 0, arr[0])                                                *)
InsertFirst(arr) == <<arr[1]>> \o arr

(* the columns and the two tables of process_climate                        *)
ClimateFrame(rows) ==
    LET tmean == TmeanColumn(rows)
    IN  [tmean |-> tmean, t30 |-> rolling_mean(tmean, NSlots),
         cgdd |-> CumSumByYear(rows, GddColumn(tmean))]

ClimateTables(rows, frame) ==
    [main_t30_lt |-> InsertFirst(GroupByDoyMean(rows, frame.t30)),
     main_cgdd_0_lt |-> InsertFirst(GroupByDoyMean(rows, frame.cgdd))]

(* np.any(climate_pd['snow'])                                               *)
AnySnow(rows) == \E k \in DOMAIN rows : rows[k].snow # 0

(* process_climate on a record without snowfall: the snow pass is skipped   *)
ProcessClimate ==
    /\ pc = "process_climate"
    /\ reg.aridity_rating <= 0
    /\ ~AnySnow(reg.weather_pd)
    /\ \E frame \in {ClimateFrame(reg.weather_pd)} :
         reg' = [reg EXCEPT !.climate_pd = frame,
                            !.climate = ClimateTables(reg.weather_pd, frame)]
    /\ pc' = "climate"
    /\ UNCHANGED <<crop, foo, foo_day, hist, run, cyc>>

(* process_climate on a record with snowfall: the first pass of the snow    *)
(* loop reads snow_accum, which no statement has bound (UnboundLocalError); *)
(* the tables are stored by then, no snow depth is written                  *)
ProcessClimateRaises ==
    /\ pc = "process_climate"
    /\ reg.aridity_rating <= 0
    /\ AnySnow(reg.weather_pd)
    /\ \E frame \in {ClimateFrame(reg.weather_pd)} :
         reg' = [reg EXCEPT !.climate_pd = frame,
                            !.climate = ClimateTables(reg.weather_pd, frame)]
    /\ pc' = "raised"
    /\ UNCHANGED <<crop, foo, foo_day, hist, run, cyc>>

NextClimate == ProcessClimate \/ ProcessClimateRaises

SpecClimate == InitClimate /\ [][NextClimate]_vars

(* the days of year that occur in the record, and the mean of a column of   *)
(* the frame over the days of the record that have day of year d            *)
DoysPresent == {reg.weather_pd[k].doy : k \in DOMAIN reg.weather_pd}

MeanOfDoy(col, d) ==
    LET ks == {k \in DOMAIN reg.weather_pd : reg.weather_pd[k].doy = d}
    IN  RDiv(RSumOver(col, ks), RInt(Cardinality(ks)))

(* entry e (counted from 0) of a table is the element e + 1 of the sequence *)
Entry(table, e) == table[e + 1]

NormalsAsStated(table, col) ==
    /\ Len(table) = 366
    /\ Entry(table, 0) = Entry(table, 1)
    /\ \A d \in 1..365 : d \in DoysPresent /\ Entry(table, d) = MeanOfDoy(col, d)

NormalsByDoyPresent(table, col) ==
    /\ Len(table) = Cardinality(DoysPresent) + 1
    /\ Entry(table, 0) = Entry(table, 1)
    /\ \A d \in DoysPresent :
          Entry(table, Cardinality({e \in DoysPresent : e <= d})) = MeanOfDoy(col, d)
    /\ (\A d \in 1..365 : d \in DoysPresent) =>
          /\ Len(table) = (IF 366 \in DoysPresent THEN 367 ELSE 366)
          /\ \A d \in DoysPresent : Entry(table, d) = MeanOfDoy(col, d)

RECURSIVE SnowDepthsFrom(_, _, _, _)
SnowDepthsFrom(rows, i, acc, out) ==
    IF i > Len(rows) THEN out
    ELSE LET melt == RMax(RInt(4 * rows[i].tmax), RZero)
             nxt == RMax(RSub(RAdd(acc, Rat(rows[i].snow, 2)), melt), RZero)
         IN  SnowDepthsFrom(rows, i + 1, nxt,
                            Append(out, RMin(RInt(ClimateSnowDepth), nxt)))

(* C14: when the record holds any snowfall, the snow pass of                *)
(* process_climate starts from an accumulation of 0 and completes without   *)
(* error, leaving snow_depth(i) = min(existing snow_depth(i), acc(i)) with  *)
(* acc(i) = max(acc(i-1) + 0.5 snow(i) - max(4 tmax(i), 0), 0), acc(0) = 0. *)
C14_SnowDepthPass ==
    (pc # "process_climate" /\ AnySnow(reg.weather_pd)) =>
        /\ pc = "climate"
        /\ LET depths == SnowDepthsFrom(reg.weather_pd, 1, RZero, <<>>)
           IN  \A i \in DOMAIN reg.weather_pd :
                   RInt(reg.weather_pd[i].snow_depth) = depths[i]

-----------------------------------------------------------------------------
(* Specification SpecReset: compute_crop_gdd on the days of a date series   *)
(* that may have gaps: the day of year of each processed day is drawn from  *)
(* ResetDoys, the adapter starts or ends the season between two calls.      *)

MaxResetDays == 2
ResetCrops ==
    { MkCrop(13, WINTER_WHEAT, 13, 0, 100),
      MkCrop(20, WINTER_CANOLA, 20, 5, 274),
      MkCrop(1, ALFALFA, 1, 5, 1),
      MkCrop(7, FIELD_CORN, 7, -10, 75),
      MkCrop(14, FIELD_CORN, 14, -5, 274),
      MkCrop(44, BARE_SOIL, 0, 0, 1),
      MkCrop(13, WINTER_WHEAT, 0, 0, 100),
      MkCrop(7, FIELD_CORN, 0, -10, 75) }
ResetDoys == {1, 99, 100, 200, 201, 273, 274, 275, 365}
(* <<tmax, tmin>> of a day *)
ResetTemps == {<<20, 10>>, <<-20, -26>>}
ResetEtref == 5

InitReset ==
    /\ pc = "gdd"
    /\ crop \in ResetCrops
    /\ foo = InitializeCropCycle
    /\ foo_day = DayData
    /\ hist = NoHist
    /\ run = [i |-> 0]
    /\ cyc = Idle
    /\ reg = Idle

(* one call of compute_crop_gdd; hist keeps the state before the call and   *)
(* the state as each of the stages A and B leaves it                        *)
ResetCall ==
    /\ pc = "gdd"
    /\ run.i < MaxResetDays
    /\ \E doy \in ResetDoys, t \in ResetTemps :
         LET fd == Populate(foo_day, run.i, doy, ResetEtref, t[1], t[2], 0)
             a == [foo EXCEPT !.etref_30 = StageA_etref_30(foo, fd)]
         IN  /\ foo' = compute_crop_gdd_foo(crop, foo, fd)
             /\ foo_day' = compute_crop_gdd_day(fd)
             /\ hist' = [pre |-> foo, pre_day |-> foo_day,
                         reset |-> ResetTriggers(crop, foo, fd),
                         seen |-> <<>>,
                         a |-> a, b |-> StageB(crop, a, fd)]
    /\ pc' = "et"
    /\ UNCHANGED <<crop, run, cyc, reg>>

ResetAdapter ==
    /\ pc = "et"
    /\ foo' \in AdapterOutcomes(foo, foo_day.doy)
    /\ run' = [run EXCEPT !.i = @ + 1]
    /\ pc' = "gdd"
    /\ UNCHANGED <<crop, foo_day, hist, cyc, reg>>

NextReset == ResetCall \/ ResetAdapter

SpecReset == InitReset /\ [][NextReset]_vars

(* the category of the crop and the boundary the last call was tested on    *)
WinterCategoryCrop ==
    crop.class_number \in {13, 14} \/ Contains(WINTER, crop.curve_name)

Boundary == crop.crop_gdd_trigger_doy + 199

(* the fields a reset writes, as Stage B of the last call left them         *)
ResetFieldsCleared ==
    /\ hist.b.cgdd = RZero
    /\ hist.b.doy_start_cycle = 0
    /\ hist.b.real_start = FALSE
    /\ hist.b.in_season = FALSE

ResetFieldsKept ==
    /\ hist.b.cgdd = hist.a.cgdd
    /\ hist.b.doy_start_cycle = hist.a.doy_start_cycle
    /\ hist.b.real_start = hist.a.real_start
    /\ hist.b.in_season = hist.a.in_season

(* C15: for a winter category crop Stage B resets on a day if and only if   *)
(* lDoy < crop_gdd_trigger_doy <= doy of the day, lDoy being the day of     *)
(* year of the day processed before.                                        *)
C15_WinterReset ==
    (pc = "et" /\ WinterCategoryCrop) =>
        /\ hist.pre.lDoy = hist.pre_day.doy
        /\ IF hist.pre.lDoy < crop.crop_gdd_trigger_doy
              /\ crop.crop_gdd_trigger_doy <= foo_day.doy
           THEN ResetFieldsCleared
           ELSE ResetFieldsKept

(* a winter crop with accumulated cgdd and a started season that is reset   *)
(* on the trigger day itself, and one that is not reset the day after it    *)
C15_Witness ==
    /\ pc = "et" /\ WinterCategoryCrop
    /\ hist.pre.lDoy < crop.crop_gdd_trigger_doy
    /\ foo_day.doy = crop.crop_gdd_trigger_doy
    /\ RLt(RZero, hist.pre.cgdd) /\ hist.pre.in_season
    /\ ResetFieldsCleared /\ ~ResetFieldsKept

ResetDay ==
    IF WinterCategoryCrop
    THEN hist.pre.lDoy < crop.crop_gdd_trigger_doy
         /\ crop.crop_gdd_trigger_doy <= foo_day.doy
    ELSE hist.pre.lDoy > Boundary /\ Boundary > foo_day.doy

(* C17: whenever the reset triggers, whatever the adapter left in the state *)
(* (in_season or real_start true), Stage B leaves cgdd = 0,                 *)
(* doy_start_cycle = 0, real_start = false and in_season = false.           *)
C17_ResetOverridesAdapter ==
    (pc = "et" /\ ResetDay) =>
        /\ ResetFieldsCleared
        /\ foo.doy_start_cycle = 0 /\ foo.real_start = FALSE /\ foo.in_season = FALSE

(* a reset of a crop the adapter had put in season, with a real start, a    *)
(* start day and accumulated cgdd                                           *)
C17_Witness ==
    /\ pc = "et" /\ ResetDay
    /\ hist.pre.in_season /\ hist.pre.real_start
    /\ hist.pre.doy_start_cycle > 0
    /\ RLt(RZero, hist.pre.cgdd)
    /\ ResetFieldsCleared

(* C18: Stage B sets lDoy to the doy of the day on every call; on a day     *)
(* without reset it changes nothing else, and on any day it leaves gdd,     *)
(* penalty, cgdd_penalty, etref_30 and the ring buffer as Stage A left      *)
(* them (a penalty scheduled the day before a reset stays pending).         *)
C18_StageBFrame ==
    pc = "et" =>
        /\ hist.b.lDoy = foo_day.doy
        /\ ~ResetDay => hist.b = [hist.a EXCEPT !.lDoy = foo_day.doy]
        /\ hist.b.gdd = hist.a.gdd
        /\ hist.b.penalty = hist.a.penalty
        /\ hist.b.cgdd_penalty = hist.a.cgdd_penalty
        /\ hist.b.etref_30 = hist.a.etref_30
        /\ \A k \in 1..NSlots :
              foo_day.etref_array[k] =
                  IF k = foo_day.sdays THEN foo_day.etref
                  ELSE hist.pre_day.etref_array[k]

(* a reset day of a winter grain crop with the cold penalty of the day      *)
(* before still pending after Stage B                                       *)
C18_Witness ==
    /\ pc = "et" /\ ResetDay
    /\ hist.pre.penalty = RInt(5)
    /\ hist.b.penalty = RInt(5)
    /\ hist.b.lDoy = foo_day.doy /\ hist.pre.lDoy # foo_day.doy

-----------------------------------------------------------------------------
(* Claims on the crop policies of Stage C, checked under SpecGdd.           *)

Max(a, b) == IF a > b THEN a ELSE b

CornCall == pc = "et" /\ ~IsWinterGrain(crop) /\ crop.curve_number > 0 /\ crop.tbase < 0

(* C21: on every day handled by the corn policy, for every tmax, tmin and   *)
(* tbase, cgdd increases by (tmaxl + tminl)/2 + tbase with                   *)
(* tmaxl = max(min(tmax, 30), -tbase), tminl = max(min(tmin, 30), -tbase),  *)
(* and gdd is left unchanged.                                               *)
C21_CornIncrement ==
    CornCall =>
        LET tmaxl == Max(Min(foo_day.tmax, 30), -crop.tbase)
            tminl == Max(Min(foo_day.tmin, 30), -crop.tbase)
        IN  /\ foo.cgdd = RAdd(CgddAfterStageB,
                               RAdd(Rat(tmaxl + tminl, 2), RInt(crop.tbase)))
            /\ foo.gdd = hist.pre.gdd

GenericCall == pc = "et" /\ ~IsWinterGrain(crop) /\ crop.curve_number > 0 /\ crop.tbase >= 0

(* C22: on every day handled by the generic policy, if tmean > tbase then   *)
(* gdd = tmean - tbase and cgdd increases by that gdd; otherwise neither    *)
(* cgdd nor gdd changes; so without a reset cgdd never decreases.           *)
C22_GenericPolicy ==
    GenericCall =>
        /\ IF RLt(RInt(crop.tbase), foo_day.tmean)
           THEN /\ foo.gdd = RSub(foo_day.tmean, RInt(crop.tbase))
                /\ foo.cgdd = RAdd(CgddAfterStageB, foo.gdd)
           ELSE /\ foo.gdd = hist.pre.gdd
                /\ foo.cgdd = CgddAfterStageB
        /\ ~hist.reset => ~RLt(foo.cgdd, hist.pre.cgdd)

(* a day not warmer than tbase after a day that was: gdd keeps the value of *)
(* the day before and the accumulated cgdd stays                            *)
C22_Witness ==
    /\ GenericCall /\ ~hist.reset
    /\ ~RLt(RInt(crop.tbase), foo_day.tmean)
    /\ RLt(RZero, hist.pre.gdd) /\ foo.gdd = hist.pre.gdd
    /\ RLt(RZero, foo.cgdd) /\ foo.cgdd = hist.pre.cgdd

-----------------------------------------------------------------------------
(* Claims on entries that are no crops, checked under SpecReset.            *)

(* C23: for an entry with curve_number <= 0, of any class and tbase, a call *)
(* of compute_crop_gdd leaves gdd, penalty and cgdd_penalty unchanged and   *)
(* changes cgdd only by the reset of Stage B; Stage A (etref_30, ring       *)
(* buffer) and Stage B (lDoy, reset) are executed all the same.             *)
C23_NonCropEntry ==
    (pc = "et" /\ crop.curve_number <= 0) =>
        /\ foo.gdd = hist.pre.gdd
        /\ foo.penalty = hist.pre.penalty
        /\ foo.cgdd_penalty = hist.pre.cgdd_penalty
        /\ foo.cgdd = IF ResetDay THEN RZero ELSE hist.pre.cgdd
        /\ foo.etref_30 = RInt(foo_day.etref)
        /\ foo_day.etref_array[foo_day.sdays] = foo_day.etref
        /\ foo.lDoy = foo_day.doy
        /\ ResetDay => /\ foo.doy_start_cycle = 0
                       /\ foo.real_start = FALSE /\ foo.in_season = FALSE

(* a winter grain class entry without curve, in season, on a cold day on    *)
(* which the reset triggers: the rolling mean and lDoy are updated, the     *)
(* season is reset, no penalty is scheduled                                 *)
C23_Witness ==
    /\ pc = "et" /\ crop.curve_number <= 0 /\ crop.class_number = 13
    /\ ResetDay /\ hist.pre.in_season /\ ~foo.in_season
    /\ foo_day.tmin < -10 /\ foo.penalty = RZero
    /\ hist.pre.lDoy # foo_day.doy /\ foo.lDoy = foo_day.doy
    /\ foo.etref_30 = RInt(5)

(* C24: for a crop with curve_number > 0 exactly one of the three policies  *)
(* is applied each day: winter grain (class 13 or 14, or curve name WINTER  *)
(* WHEAT) first, then corn (tbase < 0), then generic; a winter grain crop   *)
(* with a negative tbase is updated by the winter grain policy only.        *)
C24_OnePolicy ==
    (pc = "et" /\ crop.curve_number > 0) =>
        IF crop.class_number \in {13, 14} \/ crop.curve_name = WINTER_WHEAT
        THEN foo = WinterGrainGdd(crop, hist.b, foo_day)
        ELSE IF crop.tbase < 0
             THEN foo = CornGdd(crop, hist.b, foo_day)
             ELSE foo = GenericGdd(crop, hist.b, foo_day)

(* a winter grain crop with a negative tbase, updated as winter grain on a  *)
(* day on which the corn policy would have given another state              *)
C24_Witness ==
    /\ pc = "et" /\ crop.curve_number > 0
    /\ crop.class_number = 14 /\ crop.tbase < 0
    /\ foo = WinterGrainGdd(crop, hist.b, foo_day)
    /\ foo # CornGdd(crop, hist.b, foo_day)
    /\ foo # GenericGdd(crop, hist.b, foo_day)

-----------------------------------------------------------------------------
(* Claims on crop_day_loop, checked under SpecEt.                           *)

(* C25 as stated: on every processed day at most one of the two setups is   *)
(* invoked: the season setup when not in_season and crop_setup_flag, the    *)
(* dormant setup only if the season setup was not invoked that day (and not *)
(* in_season and dormant_setup_flag), whatever the season setup leaves.     *)
C25_OneSetupAsStated ==
    run.nout > 0 =>
        /\ Cardinality(hist.setups) <= 1
        /\ "setup_crop" \in hist.setups <=>
              (~hist.before.in_season /\ hist.before.crop_setup_flag)
        /\ "setup_dormant" \in hist.setups <=>
              /\ "setup_crop" \notin hist.setups
              /\ ~hist.before.in_season /\ hist.before.dormant_setup_flag

(* C25: on every processed day the season setup is invoked when not         *)
(* in_season and crop_setup_flag, and the dormant setup is invoked when,    *)
(* after the season setup if there was one, not in_season and               *)
(* dormant_setup_flag: both are invoked on a day whose season setup leaves  *)
(* in_season false with dormant_setup_flag true.                            *)
C25_TwoSetups ==
    run.nout > 0 =>
        /\ "setup_crop" \in hist.setups <=>
              (~hist.before.in_season /\ hist.before.crop_setup_flag)
        /\ "setup_dormant" \in hist.setups <=>
              (~hist.mid.in_season /\ hist.mid.dormant_setup_flag)
        /\ "setup_crop" \in hist.setups => ~hist.pre.crop_setup_flag
        /\ "setup_dormant" \in hist.setups => ~hist.pre.dormant_setup_flag
        /\ (hist.setups = {"setup_crop", "setup_dormant"}) <=>
              /\ ~hist.before.in_season /\ hist.before.crop_setup_flag
              /\ ~hist.mid.in_season /\ hist.mid.dormant_setup_flag

(* the day after the adapter has ended a season with both flags set: both   *)
(* setups are invoked                                                       *)
C25_Witness ==
    /\ run.nout > 0
    /\ ~hist.before.in_season
    /\ hist.before.crop_setup_flag /\ hist.before.dormant_setup_flag
    /\ hist.before.doy_start_cycle > 0
    /\ hist.setups = {"setup_crop", "setup_dormant"}
    /\ ~hist.pre.crop_setup_flag /\ ~hist.pre.dormant_setup_flag

-----------------------------------------------------------------------------
(* Claim on the cumulative growing degree days of process_climate, checked  *)
(* under SpecClimate.                                                       *)

(* the first row of the record in the calendar year of row k (the rows are  *)
(* in date order)                                                           *)
FirstRowOfYear(rows, k) ==
    CHOOSE a \in 1..k :
        /\ rows[a].year = rows[k].year
        /\ a = 1 \/ rows[a - 1].year # rows[k].year

(* max(tmean, 0) of every row                                               *)
TmeanAboveZero(rows) ==
    [k \in DOMAIN rows |-> RMax(RZero, Rat(rows[k].tmax + rows[k].tmin, 2))]

(* C27: after process_climate the cumulative base-0 GDD of a day is the sum *)
(* of max(tmean, 0) from the first day of the record in the same calendar   *)
(* year up to that day: it restarts at a year change, is never negative and *)
(* never decreases within a calendar year.                                  *)
C27_CgddByYear ==
    pc \in {"climate", "raised"} =>
        LET rows == reg.weather_pd
            cgdd == reg.climate_pd.cgdd
            gdd == TmeanAboveZero(rows)
        IN  /\ Len(cgdd) = Len(rows)
            /\ \A k \in DOMAIN rows :
                 /\ cgdd[k] = RSumFromTo(gdd, FirstRowOfYear(rows, k), k)
                 /\ ~RLt(cgdd[k], RZero)
                 /\ k > 1 =>
                      IF rows[k].year = rows[k - 1].year
                      THEN ~RLt(cgdd[k], cgdd[k - 1])
                      ELSE cgdd[k] = gdd[k]

(* a record that goes over a year change with days below and above zero:    *)
(* the sum stays where tmean <= 0, grows where tmean > 0 and is smaller on  *)
(* the first day of the new year than on the last day of the old one        *)
C27_Witness ==
    /\ pc = "climate"
    /\ \E k \in 2..Len(reg.weather_pd) :
         /\ reg.weather_pd[k].year # reg.weather_pd[k - 1].year
         /\ RLt(reg.climate_pd.cgdd[k], reg.climate_pd.cgdd[k - 1])
    /\ \E k \in 2..Len(reg.weather_pd) :
         /\ reg.weather_pd[k].year = reg.weather_pd[k - 1].year
         /\ ~RLt(RZero, reg.climate_pd.tmean[k])
         /\ reg.climate_pd.cgdd[k] = reg.climate_pd.cgdd[k - 1]
         /\ RLt(RZero, reg.climate_pd.cgdd[k])

-----------------------------------------------------------------------------
(* Specification SpecFilter: ETCellData.filter_cell_crops on a registry of  *)
(* two cells whose active crops, and the skip and test lists, are drawn     *)
(* from FilterCropNums; crop_num_list holds the crops active in some cell.  *)

FilterCropNums == {3, 7, 13}
FilterCells == {"A", "B"}

InitFilter ==
    /\ pc = "filter_cell_crops"
    /\ crop = LoopCrop
    /\ foo = InitializeCropCycle
    /\ foo_day = DayData
    /\ run = Idle
    /\ cyc = Idle
    /\ \E flags \in [FilterCells -> SUBSET FilterCropNums],
          skip_list \in SUBSET FilterCropNums, test_list \in SUBSET FilterCropNums :
         /\ reg = [et_cells_dict |-> FilterCells,
                   crop_flags |-> flags,
                   crop_num_list |-> UNION {flags[c] : c \in FilterCells},
                   skip_list |-> skip_list, test_list |-> test_list]
         /\ hist = [crop_num_list |-> reg.crop_num_list,
                    et_cells_dict |-> reg.et_cells_dict]

(* the condition of the list comprehension: a list that is empty is falsy   *)
KeepCropNum(crop_num, skip_list, test_list) ==
    \/ skip_list # {} /\ crop_num \notin skip_list
    \/ test_list # {} /\ crop_num \in test_list

(* the cells the loop over sorted(et_cells_dict.items()) does not delete    *)
CellsWithActiveCrops(r, crop_num_list) ==
    {cell_id \in r.et_cells_dict : crop_num_list \cap r.crop_flags[cell_id] # {}}

(* filter_cell_crops with a skip list or a test list                        *)
FilterCellCrops ==
    /\ pc = "filter_cell_crops"
    /\ reg.skip_list # {} \/ reg.test_list # {}
    /\ LET kept == {crop_num \in reg.crop_num_list :
                       KeepCropNum(crop_num, reg.skip_list, reg.test_list)}
       IN  reg' = [reg EXCEPT !.crop_num_list = kept,
                              !.et_cells_dict = CellsWithActiveCrops(reg, kept)]
    /\ pc' = "filtered"
    /\ UNCHANGED <<crop, foo, foo_day, hist, run, cyc>>

(* filter_cell_crops with both lists empty: the body is skipped             *)
FilterCellCropsNoLists ==
    /\ pc = "filter_cell_crops"
    /\ reg.skip_list = {} /\ reg.test_list = {}
    /\ pc' = "filtered"
    /\ UNCHANGED <<crop, foo, foo_day, hist, run, cyc, reg>>

NextFilter == FilterCellCrops \/ FilterCellCropsNoLists

SpecFilter == InitFilter /\ [][NextFilter]_vars

(* C28: after filter_cell_crops with a list given, crop_num_list holds no   *)
(* crop of skip_list and, when test_list is given, only crops of test_list  *)
(* (also when both are given), and the registry keeps exactly the cells     *)
(* with an active crop in the filtered crop_num_list; with both lists empty *)
(* crop_num_list and the registry are unchanged.                            *)
C28_FilterLists ==
    pc = "filtered" =>
        IF reg.skip_list = {} /\ reg.test_list = {}
        THEN /\ reg.crop_num_list = hist.crop_num_list
             /\ reg.et_cells_dict = hist.et_cells_dict
        ELSE /\ reg.crop_num_list \subseteq hist.crop_num_list
             /\ reg.crop_num_list \cap reg.skip_list = {}
             /\ reg.test_list # {} => reg.crop_num_list \subseteq reg.test_list
             /\ reg.et_cells_dict =
                  {cell_id \in hist.et_cells_dict :
                      reg.crop_num_list \cap reg.crop_flags[cell_id] # {}}

-----------------------------------------------------------------------------
(* Claim on the resets of a standard crop over consecutive days, checked    *)
(* under SpecYear.                                                          *)

(* a day of a standard category crop has been processed                     *)
StandardYearDay == run.i > 0 /\ ~IsWinterCategory(crop)

(* the processed day is the first day of a year the run entered through a   *)
(* year change: the day before was the last day of the year run.year - 1    *)
AfterYearWrap == foo_day.doy = 1 /\ run.i > 1

C29_WitnessNoReset ==
    /\ StandardYearDay /\ AfterYearWrap
    /\ crop.crop_gdd_trigger_doy = 166
    /\ YearLen(run.year - 1) = 365
    /\ ~hist.reset

-----------------------------------------------------------------------------
(* Specification SpecPaths: the crop loop of crop_cycle for one cell, one   *)
(* action per pass, with the class_number of every crop drawn from          *)
(* PathClasses. A pass of an active crop opens its output file for writing  *)
(* (which empties it), writes the header and the records of crop_day_loop,  *)
(* and closes it.                                                           *)

PathClasses == {1, 3, 13}

(* et_cell.crop_params with the class numbers of this run                   *)
PathParams(classes) ==
    [n \in CycleCropNums |-> [CycleParams[n] EXCEPT !.class_number = classes[n]]]

InitPaths ==
    /\ pc = "crops"
    /\ crop = LoopCrop
    /\ foo = InitializeCropCycle
    /\ foo_day = DayData
    /\ hist = NoHist
    /\ run = Idle
    /\ reg = Idle
    /\ \E flags \in [CycleCropNums -> BOOLEAN], classes \in [CycleCropNums -> PathClasses] :
         cyc = [k |-> 1, crop_flags |-> flags, crop_params |-> PathParams(classes),
                out |-> [q \in PathClasses |-> <<>>],
                opened |-> <<>>]

(* the lines the pass of crop number n leaves in its output file            *)
PathFile(n) == <<"header">> \o [i \in 1..CycleRows |-> n]

(* the crop is not used at the station: continue                            *)
PathsSkipCrop ==
    /\ pc = "crops"
    /\ cyc.k <= Len(CycleOrder)
    /\ ~cyc.crop_flags[CycleOrder[cyc.k]]
    /\ cyc' = [cyc EXCEPT !.k = @ + 1]
    /\ UNCHANGED <<pc, crop, foo, foo_day, hist, run, reg>>

(* the pass of an active crop: open(output_path, 'w'), header, the records  *)
(* of crop_day_loop, close                                                  *)
PathsRunCrop ==
    /\ pc = "crops"
    /\ cyc.k <= Len(CycleOrder)
    /\ cyc.crop_flags[CycleOrder[cyc.k]]
    /\ LET n == CycleOrder[cyc.k]
           q == OutputPath(cyc.crop_params[n])
       IN  cyc' = [cyc EXCEPT !.k = @ + 1,
                              !.out[q] = PathFile(n),
                              !.opened = Append(@, <<n, q>>)]
    /\ UNCHANGED <<pc, crop, foo, foo_day, hist, run, reg>>

PathsEnd ==
    /\ pc = "crops"
    /\ cyc.k > Len(CycleOrder)
    /\ pc' = "done"
    /\ UNCHANGED <<crop, foo, foo_day, hist, run, cyc, reg>>

NextPaths == PathsSkipCrop \/ PathsRunCrop \/ PathsEnd

SpecPaths == InitPaths /\ [][NextPaths]_vars

(* C30: within one call of crop_cycle the output file paths of the active   *)
(* crops are pairwise distinct, for every assignment of class_number to the *)
(* crops: no two active crop numbers open (and empty) the same file, and    *)
(* at the end every processed crop finds its own records in its file.       *)
C30_DistinctPaths ==
    /\ \A i, j \in DOMAIN cyc.opened :
         cyc.opened[i][1] # cyc.opened[j][1] => cyc.opened[i][2] # cyc.opened[j][2]
    /\ pc = "done" =>
         \A i \in DOMAIN cyc.opened :
             cyc.out[cyc.opened[i][2]] = PathFile(cyc.opened[i][1])

====
